---- MODULE Spec2Model ----
(***************************************************************************)
(* Upgrade checks of the Ceph client (pkg/daemon/ceph/client/upgrade.go):  *)
(* OkToStop, OkToContinue, LeastUptodateDaemonVersion and their helpers.   *)
(* One call runs at a time; every external cluster query is a step whose   *)
(* response is chosen from a bounded set.  Durations are in seconds.       *)
(***************************************************************************)
EXTENDS Integers, Sequences, FiniteSets, TLC

\* ---------------------------------------------------------------- bounds
MaxCount == 3
MaxOsds == 3
MaxOsdRetries == 2
MaxPolicyTimeout == 125

\* ------------------------------------------------------ program constants
defaultMaxRetries == 10
defaultRetryDelay == 60
defaultOSDRetryDelay == 10
mdsRetryDelay == 15
minMons == 3
minOsds == 3

\* Mutant: osd is in the list of the daemons without check.
daemonNoCheck_withOsd == {"mgr", "rgw", "rbd-mirror", "nfs", "osd"}

\* Mutant: nfs is missing from the list.
daemonNoCheck_withoutNfs == {"mgr", "rgw", "rbd-mirror"}

daemonNoCheck == {"mgr", "rgw", "rbd-mirror", "nfs"}

\* Daemon types a caller may pass: the seven of the data model, the name the
\* lookup switch uses for the mirror agent, and one unknown name.
DaemonTypes == {"mon", "mgr", "mds", "osd", "rgw", "rbd-mirror", "nfs", "mirror", "dummy"}

\* (deployment, daemonName) pairs.  A deployment name is a sequence of tokens
\* so that a prefix can be trimmed from it.
Targets ==
  { [deployment |-> <<"rook-ceph-mds-", "myfs-a">>, daemonName |-> "myfs-a"],
    [deployment |-> <<"rook-ceph-osd-", "0">>, daemonName |-> "0"] }

\* clusterInfo.OsdUpgradeTimeout: the multiples of the osd delay within the
\* bound, and one value that is no multiple.
OsdUpgradeTimeouts ==
  { n * defaultOSDRetryDelay : n \in 0..MaxOsdRetries } \cup { 2 * defaultOSDRetryDelay - 1 }

\* ----------------------------------------------------------------- errors
\* An error is the sequence of its frames, outermost first; nil is <<>>.
Nil == <<>>

NewError(msg, arg) == << [msg |-> msg, arg |-> arg] >>

Wrap(err, msg, arg) == << [msg |-> msg, arg |-> arg] >> \o err

\* The failure of an external cluster command.
QueryFailure == NewError("QueryFailure", <<>>)

\* The failure of json.Unmarshal.
DecodeFailure == NewError("DecodeFailure", <<>>)

\* The failure of cephver.ExtractCephVersion.
ParseFailure == NewError("ParseFailure", <<>>)

\* The root cause of a non-nil error.
Cause(err) == err[Len(err)].msg

\* --------------------------------------------------------------- versions
\* A version-identifier string: the fixed words and the dotted numbers that
\* follow them.  "ceph version 13.2.5 (...) mimic (stable)" has nums <<13,2,5>>.
VersionStrings ==
  { [words |-> "ceph version", nums |-> <<13, 2, 5>>],
    [words |-> "ceph version", nums |-> <<14, 2, 0>>],
    [words |-> "ceph version", nums |-> <<14, 2>>] }

ZeroVersion == [Major |-> 0, Minor |-> 0, Extra |-> 0]

\* cephver.ExtractCephVersion: the first three dotted numbers after
\* "ceph version"; a string without them does not parse.
ExtractCephVersion(s) ==
  IF s.words = "ceph version" /\ Len(s.nums) >= 3
    THEN [err |-> Nil,
          version |-> [Major |-> s.nums[1], Minor |-> s.nums[2], Extra |-> s.nums[3]]]
    ELSE [err |-> ParseFailure, version |-> ZeroVersion]

\* map[string]int values: a function from version strings to counts.
VersionMaps ==
  UNION { [K -> 1..MaxCount] : K \in { S \in SUBSET VersionStrings : Cardinality(S) <= 2 } }

EmptyMap == [s \in {} |-> 0]

\* The keys of the JSON object 'ceph versions' prints.
JsonKeys == {"mon", "mgr", "osd", "rgw", "mds", "rbd-mirror", "overall"}

\* The fields of CephDaemonsVersions with their json tags.
JsonTag ==
  [Mon |-> "mon", Mgr |-> "mgr", Osd |-> "osd", Rgw |-> "rgw", Mds |-> "mds",
   RbdMirror |-> "rbd-mirror", Overall |-> "overall"]

\* A map no other entry of an output shares counts with, one per key.
OtherMap(k) ==
  IF k \in {"mon", "osd", "mds"}
    THEN [s \in {[words |-> "ceph version", nums |-> <<14, 2, 0>>]} |-> 1]
    ELSE [s \in {[words |-> "ceph version", nums |-> <<13, 2, 5>>]} |-> 2]

\* Outputs of 'ceph versions': a JSON object (a function on some of the keys)
\* or text that is no JSON.  The keys of `keys` carry any map, one at a time;
\* the other keys are absent (omitempty) when `alone`, and carry a fixed map
\* otherwise.
VersionsOutputs(keys, forms) ==
  { [json |-> TRUE,
     obj |-> [k \in (IF alone THEN {key} ELSE JsonKeys) |-> IF k = key THEN m ELSE OtherMap(k)]] :
       key \in keys, m \in VersionMaps, alone \in forms }
    \cup { [json |-> FALSE, obj |-> EmptyMap] }

\* What NewCephCommand(...).Run() returns for 'ceph versions'.
VersionsResponses(keys, forms) ==
  { [err |-> Nil, buf |-> o] : o \in VersionsOutputs(keys, forms) }
    \cup { [err |-> QueryFailure, buf |-> [json |-> FALSE, obj |-> EmptyMap]] }

\* The zero value of CephDaemonsVersions.
ZeroVersions == [f \in DOMAIN JsonTag |-> EmptyMap]

\* json.Unmarshal into CephDaemonsVersions: each field takes the value of
\* the key its tag names, a field whose key is absent stays empty.
Unmarshal(buf) ==
  IF buf.json
    THEN [err |-> Nil,
          versions |-> [f \in DOMAIN JsonTag |->
                          IF JsonTag[f] \in DOMAIN buf.obj THEN buf.obj[JsonTag[f]] ELSE EmptyMap]]
    ELSE [err |-> DecodeFailure, versions |-> ZeroVersions]

getAllCephDaemonVersionsString(resp) ==
  IF resp.err # Nil
    THEN [err |-> Wrap(resp.err, "failed to run 'ceph versions'", <<>>), output |-> resp.buf]
    ELSE [err |-> Nil, output |-> resp.buf]

\* Mutant: the error of json.Unmarshal is dropped.
GetAllCephDaemonVersions_decodeUnchecked(resp) ==
  LET out == getAllCephDaemonVersionsString(resp)
      dec == Unmarshal(out.output)
  IN  IF out.err # Nil
        THEN [err |-> out.err, versions |-> ZeroVersions]
        ELSE [err |-> Nil, versions |-> dec.versions]

GetAllCephDaemonVersions(resp) ==
  LET out == getAllCephDaemonVersionsString(resp)
      dec == Unmarshal(out.output)
  IN  IF out.err # Nil
        THEN [err |-> out.err, versions |-> ZeroVersions]
        ELSE IF dec.err # Nil
          THEN [err |-> Wrap(dec.err, "failed to retrieve ceph versions results", <<>>),
                versions |-> ZeroVersions]
          ELSE [err |-> Nil, versions |-> dec.versions]

\* ----------------------------------------------------------- retry policy
\* Go's integer division truncates toward zero.
GoDiv(a, b) == IF a >= 0 THEN a \div b ELSE 0 - ((0 - a) \div b)

\* Mutant: the mds case is missing, mds takes the default.
getRetryConfig_mdsDefault(timeout, dt) ==
  IF dt = "osd"
    THEN [retries |-> GoDiv(timeout, defaultOSDRetryDelay), delay |-> defaultOSDRetryDelay]
    ELSE [retries |-> defaultMaxRetries, delay |-> defaultRetryDelay]

getRetryConfig(timeout, dt) ==
  IF dt = "osd"
    THEN [retries |-> GoDiv(timeout, defaultOSDRetryDelay), delay |-> defaultOSDRetryDelay]
    ELSE IF dt = "mds"
      THEN [retries |-> defaultMaxRetries, delay |-> mdsRetryDelay]
      ELSE [retries |-> defaultMaxRetries, delay |-> defaultRetryDelay]

StringInSlice(a, list) == a \in list

\* strings.TrimPrefix(deployment, "rook-ceph-mds-")
findFSName(d) == IF Len(d) > 0 /\ Head(d) = "rook-ceph-mds-" THEN Tail(d) ELSE d

\* --------------------------------------------------------------- topology
OsdIds == 0 .. (MaxOsds - 1)

\* What OsdListNum returns: the ids 0..n-1 of the osds, or a failure.
OsdLists == { 0 .. (n - 1) : n \in 0..MaxOsds }

OsdListResponses ==
  { [err |-> Nil, osds |-> l] : l \in OsdLists } \cup { [err |-> QueryFailure, osds |-> {}] }

\* The zero value of OsdTree: no 'nodes' field, no stray.
ZeroTree == [nodesNil |-> TRUE, nodes |-> <<>>, stray |-> {}]

\* The hosts a tree may hold.
Hosts == 1..2

\* The tree of a placement p of the osds on h hosts.  p[o] is the host
\* (1..h) osd o is under, -1 when o is stray; any other value means the
\* tree does not hold o.  The nodes are the root, the hosts, then the osds under a host.
TreeOf(h, p) ==
  LET root == [id |-> 0 - 1, type |-> "root", children |-> { 0 - 1 - i : i \in 1..h }]
      host(i) == [id |-> 0 - 1 - i, type |-> "host", children |-> { o \in OsdIds : p[o] = i }]
      osd(o) == [id |-> o, type |-> "osd", children |-> {}]
      all == [i \in 1..MaxOsds |-> osd(i - 1)]
      placed(n) == p[n.id] \in 1..h
  IN  [nodesNil |-> FALSE,
       nodes |-> <<root>> \o [i \in 1..h |-> host(i)] \o SelectSeq(all, placed),
       stray |-> { o \in OsdIds : p[o] = 0 - 1 }]

\* What HostTree returns: a tree, an empty node list, no 'nodes' field, or a failure.
OsdTrees ==
  { TreeOf(h, p) : h \in {0} \cup Hosts, p \in [OsdIds -> {0 - 1, 0} \cup Hosts] }
    \cup { ZeroTree, [nodesNil |-> FALSE, nodes |-> <<>>, stray |-> {}] }

HostTreeResponses ==
  { [err |-> Nil, tree |-> t] : t \in OsdTrees } \cup { [err |-> QueryFailure, tree |-> ZeroTree] }

IsHost(t) == t.type = "host"

\* Mutant: the nodes are not filtered by type.
buildHostListFromTree_allNodes(tree) ==
  IF tree.nodesNil
    THEN [err |-> NewError("osd tree not populated, missing 'nodes' field", <<>>), nodes |-> <<>>]
    ELSE [err |-> Nil, nodes |-> tree.nodes]

\* The nodes of type host of the tree; no 'nodes' field is an error.
buildHostListFromTree(tree) ==
  IF tree.nodesNil
    THEN [err |-> NewError("osd tree not populated, missing 'nodes' field", <<>>), nodes |-> <<>>]
    ELSE [err |-> Nil, nodes |-> SelectSeq(tree.nodes, IsHost)]

\* Mutant: the stray osds are not subtracted.
allOSDsSameHost_strayCounted(tree, osds) ==
  LET hostOsdTree == buildHostListFromTree(tree)
      hostOsdNodes == Len(hostOsdTree.nodes)
      hostOsdNum == Cardinality(hostOsdTree.nodes[1].children)
      osdUp == Cardinality(osds)
  IN  IF hostOsdTree.err # Nil
        THEN [aio |-> FALSE, err |-> Wrap(hostOsdTree.err, "failed to build osd tree", <<>>)]
        ELSE IF hostOsdNodes = 0
          THEN [aio |-> FALSE, err |-> NewError("no host in crush map yet?", <<>>)]
          ELSE IF hostOsdNodes = 1 /\ hostOsdNum = osdUp
            THEN [aio |-> TRUE, err |-> Nil]
            ELSE [aio |-> FALSE, err |-> Nil]

\* allOSDsSameHost once HostTree returned `tree` and OsdListNum returned `osds`.
allOSDsSameHost(tree, osds) ==
  LET hostOsdTree == buildHostListFromTree(tree)
      hostOsdNodes == Len(hostOsdTree.nodes)
      hostOsdNum == Cardinality(hostOsdTree.nodes[1].children)
      osdUp == Cardinality(osds) - Cardinality(tree.stray)
  IN  IF hostOsdTree.err # Nil
        THEN [aio |-> FALSE, err |-> Wrap(hostOsdTree.err, "failed to build osd tree", <<>>)]
        ELSE IF hostOsdNodes = 0
          THEN [aio |-> FALSE, err |-> NewError("no host in crush map yet?", <<>>)]
          ELSE IF hostOsdNodes = 1 /\ hostOsdNum = osdUp
            THEN [aio |-> TRUE, err |-> Nil]
            ELSE [aio |-> FALSE, err |-> Nil]

\* ------------------------------------------------------------------ state
VARIABLES
  pc,                 \* where the running call stands
  op,                 \* the operation called
  deployment,         \* argument
  daemonType,         \* argument
  daemonName,         \* argument
  osdUpgradeTimeout,  \* clusterInfo.OsdUpgradeTimeout
  retries,            \* okToStopRetries / retries
  delay,              \* okToStopDelay / delay
  tries,              \* failed attempts of the running retry loop
  versions,           \* OkToStop's and LeastUptodateDaemonVersion's `versions`
  osds,               \* osdDoNothing's `osds`
  tree,               \* allOSDsSameHost's `tree`
  aioOsds,            \* allOSDsSameHost's `osds`
  aio,                \* what allOSDsSameHost returned
  result,             \* the error the call returned (Nil for nil)
  vv,                 \* the version LeastUptodateDaemonVersion returned
  events              \* the queries and sleeps of the running call, in order

vars ==
  << pc, op, deployment, daemonType, daemonName, osdUpgradeTimeout, retries, delay,
     tries, versions, osds, tree, aioOsds, aio, result, vv, events >>

args == << deployment, daemonType, daemonName, osdUpgradeTimeout >>

osdLocals == << osds, tree, aioOsds, aio >>

\* An external query: its arguments, whether it succeeded, the kind of its
\* output ("json", "text" or "") and the number of items it returned
\* (versions, osds, or host nodes of the tree).
Query(a, ok, out, n) == [kind |-> "query", args |-> a, ok |-> ok, out |-> out, n |-> n]

\* A sleep of d seconds.
Sleep(d) == [kind |-> "sleep", args |-> <<>>, ok |-> TRUE, out |-> "", n |-> d]

\* A poll of the filesystem-health probe.
Poll(fs, ok) == [kind |-> "fs", args |-> fs, ok |-> ok, out |-> "", n |-> 0]

NoTarget == [deployment |-> <<>>, daemonName |-> ""]

Idle ==
  /\ pc = "idle"
  /\ op = "none"
  /\ deployment = NoTarget.deployment
  /\ daemonType = ""
  /\ daemonName = NoTarget.daemonName
  /\ retries = 0
  /\ delay = 0
  /\ tries = 0
  /\ versions = ZeroVersions
  /\ osds = {}
  /\ tree = ZeroTree
  /\ aioOsds = {}
  /\ aio = FALSE
  /\ result = Nil
  /\ vv = ZeroVersion
  /\ events = <<>>

Init ==
  /\ Idle
  /\ osdUpgradeTimeout \in OsdUpgradeTimeouts

\* ------------------------------------------------------------------ retry
\* util.Retry(maxRetries, delay, f) after f returned err with `t` failed
\* attempts before it: nil on success; on failure the budget of retries is
\* checked, and either the last error is returned or the loop sleeps and
\* calls f again.  f runs once before any retry, so a result exists for
\* every budget.
Retry(maxRetries, t, err) ==
  IF err = Nil
    THEN [pc |-> "done", tries |-> t, err |-> Nil]
    ELSE IF t + 1 > maxRetries
      THEN [pc |-> "done", tries |-> t + 1, err |-> err]
      ELSE [pc |-> "sleep", tries |-> t + 1, err |-> err]

\* The pause of util.Retry between two attempts.
RetrySleep ==
  /\ pc = "sleep"
  /\ events' = Append(events, Sleep(delay))
  /\ pc' = IF op = "OkToStop" THEN "okToStopDaemon" ELSE "okToContinueMDSDaemon"
  /\ UNCHANGED << op, args, retries, delay, tries, versions, osdLocals, result, vv >>

\* --------------------------------------------------------------- OkToStop
\* OkToStop is called: the retry configuration is computed.
OkToStop ==
  /\ pc = "idle"
  /\ \E t \in Targets, dt \in DaemonTypes :
       /\ deployment' = t.deployment
       /\ daemonName' = t.daemonName
       /\ daemonType' = dt
       /\ retries' = getRetryConfig(osdUpgradeTimeout, dt).retries
       /\ delay' = getRetryConfig(osdUpgradeTimeout, dt).delay
  /\ op' = "OkToStop"
  /\ pc' = "versions"
  /\ UNCHANGED << osdUpgradeTimeout, tries, versions, osdLocals, result, vv, events >>

\* Mutant: the mon case does not look at the number of versions.
monBestEffort_anyVersion(v) ==
  \E k \in DOMAIN v.Mon : v.Mon[k] < minMons

\* Mutant: the mon case compares the count with 2.
monBestEffort_belowTwo(v) ==
  /\ Cardinality(DOMAIN v.Mon) = 1
  /\ \E k \in DOMAIN v.Mon : v.Mon[k] < minMons - 1

\* The mon case of the switch: a single version whose count is below 3.
monBestEffort(v) ==
  /\ Cardinality(DOMAIN v.Mon) = 1
  /\ \E k \in DOMAIN v.Mon : v.Mon[k] < minMons

\* OkToStop fetches the versions and runs the switch on the daemon type.
OkToStopVersions ==
  /\ pc = "versions"
  /\ op = "OkToStop"
  /\ \E resp \in VersionsResponses({"mon"}, {FALSE}) :
       LET got == GetAllCephDaemonVersions(resp)
       IN  /\ events' = Append(events, Query(<<"versions">>, resp.err = Nil,
                                         IF resp.err # Nil THEN "" ELSE IF resp.buf.json THEN "json" ELSE "text", 0))
           /\ IF got.err # Nil
                THEN /\ result' = Wrap(got.err, "failed to get ceph daemons versions", <<>>)
                     /\ pc' = "done"
                     /\ UNCHANGED versions
                ELSE /\ versions' = got.versions
                     /\ result' = Nil
                     /\ pc' = IF daemonType = "mon" /\ monBestEffort(got.versions)
                                THEN "done"
                                ELSE IF daemonType = "osd"
                                  THEN "osdDoNothing"
                                  ELSE "okToStopDaemon"
  /\ UNCHANGED << op, args, retries, delay, tries, osdLocals, vv >>

\* Mutant: len(osds) < 2
lessThanMinOsds_belowTwo(l) == Cardinality(l) < minOsds - 1

\* len(osds) < 3
lessThanMinOsds(l) == Cardinality(l) < minOsds

\* Mutant: a failed count of the osds skips the check.
osdDoNothing_listFailureSkips ==
  /\ pc = "osdDoNothing"
  /\ \E resp \in OsdListResponses :
       /\ events' = Append(events, Query(<<"osd", "ls">>, resp.err = Nil, "", Cardinality(resp.osds)))
       /\ IF resp.err # Nil
            THEN pc' = "done" /\ UNCHANGED osds
            ELSE /\ osds' = resp.osds
                 /\ pc' = IF lessThanMinOsds(resp.osds) THEN "done" ELSE "HostTree"
  /\ UNCHANGED << op, args, retries, delay, tries, versions, tree, aioOsds, aio, result, vv >>

\* osdDoNothing counts the osds.
osdDoNothing ==
  /\ pc = "osdDoNothing"
  /\ \E resp \in OsdListResponses :
       /\ events' = Append(events, Query(<<"osd", "ls">>, resp.err = Nil, "", Cardinality(resp.osds)))
       /\ IF resp.err # Nil
            THEN pc' = "okToStopDaemon" /\ UNCHANGED osds
            ELSE /\ osds' = resp.osds
                 /\ pc' = IF lessThanMinOsds(resp.osds) THEN "done" ELSE "HostTree"
  /\ UNCHANGED << op, args, retries, delay, tries, versions, tree, aioOsds, aio, result, vv >>

\* Mutant: a failed fetch of the osd tree skips the check.
HostTree_failureSkips ==
  /\ pc = "HostTree"
  /\ \E resp \in HostTreeResponses :
       /\ events' = Append(events, Query(<<"osd", "tree">>, resp.err = Nil, "", Len(SelectSeq(resp.tree.nodes, IsHost))))
       /\ IF resp.err # Nil
            THEN /\ pc' = "done"
                 /\ osds' = {} /\ tree' = ZeroTree
            ELSE /\ pc' = "OsdListNum"
                 /\ tree' = resp.tree /\ UNCHANGED osds
  /\ UNCHANGED << op, args, retries, delay, tries, versions, aioOsds, aio, result, vv >>

\* allOSDsSameHost fetches the osd tree; on failure osdDoNothing returns
\* false and its locals are gone.
HostTree ==
  /\ pc = "HostTree"
  /\ \E resp \in HostTreeResponses :
       /\ events' = Append(events, Query(<<"osd", "tree">>, resp.err = Nil, "", Len(SelectSeq(resp.tree.nodes, IsHost))))
       /\ IF resp.err # Nil
            THEN /\ pc' = "okToStopDaemon"
                 /\ osds' = {} /\ tree' = ZeroTree
            ELSE /\ pc' = "OsdListNum"
                 /\ tree' = resp.tree /\ UNCHANGED osds
  /\ UNCHANGED << op, args, retries, delay, tries, versions, aioOsds, aio, result, vv >>

\* allOSDsSameHost counts the osds and compares them with the tree;
\* osdDoNothing returns what it found, or false on an error.  When it
\* returns false its locals are gone; when it returns true OkToStop
\* returns at once.
OsdListNum ==
  /\ pc = "OsdListNum"
  /\ \E resp \in OsdListResponses :
       LET same == IF resp.err # Nil
                     THEN [aio |-> FALSE, err |-> Wrap(resp.err, "failed to get the osd list", <<>>)]
                     ELSE allOSDsSameHost(tree, resp.osds)
       IN  /\ events' = Append(events, Query(<<"osd", "ls">>, resp.err = Nil, "", Cardinality(resp.osds)))
           /\ IF same.err = Nil /\ same.aio
                THEN /\ pc' = "done"
                     /\ aioOsds' = resp.osds /\ aio' = same.aio
                     /\ UNCHANGED << osds, tree >>
                ELSE /\ pc' = "okToStopDaemon"
                     /\ osds' = {} /\ tree' = ZeroTree /\ aioOsds' = {} /\ aio' = FALSE
  /\ UNCHANGED << op, args, retries, delay, tries, versions, result, vv >>

\* Mutant: every ok-to-stop command is taken as failed.
okToStopDaemon_alwaysError(dt, dep, ok) ==
  IF ~StringInSlice(dt, daemonNoCheck)
    THEN [query |-> TRUE, err |-> Wrap(QueryFailure, "deployment %s cannot be stopped", dep)]
    ELSE [query |-> FALSE, err |-> Nil]

\* Mutant: the error of the ok-to-stop command is dropped.
okToStopDaemon_errorDropped(dt, dep, ok) ==
  IF ~StringInSlice(dt, daemonNoCheck)
    THEN [query |-> TRUE, err |-> Nil]
    ELSE [query |-> FALSE, err |-> Nil]

\* okToStopDaemon when the ok-to-stop command, if issued, answers `ok`:
\* whether the command is issued, and the error returned.
okToStopDaemon(dt, dep, ok) ==
  IF ~StringInSlice(dt, daemonNoCheck)
    THEN [query |-> TRUE,
          err |-> IF ok THEN Nil ELSE Wrap(QueryFailure, "deployment %s cannot be stopped", dep)]
    ELSE [query |-> FALSE, err |-> Nil]

\* Mutant: the error util.Retry returns is not looked at.
RetryOkToStopDaemon_errorIgnored ==
  /\ pc = "okToStopDaemon"
  /\ \E ok \in BOOLEAN :
       LET f == okToStopDaemon(daemonType, deployment, ok)
           r == Retry(retries, tries, f.err)
       IN  /\ f.query \/ ok
           /\ events' = IF f.query
                          THEN Append(events, Query(<<daemonType, "ok-to-stop", daemonName>>, ok, "", 0))
                          ELSE events
           /\ pc' = r.pc
           /\ tries' = r.tries
           /\ result' = Nil
  /\ UNCHANGED << op, args, retries, delay, versions, osdLocals, vv >>

\* One attempt of the retry loop of OkToStop: okToStopDaemon, then the
\* bookkeeping of util.Retry and the wrapping of its error.
RetryOkToStopDaemon ==
  /\ pc = "okToStopDaemon"
  /\ \E ok \in BOOLEAN :
       LET f == okToStopDaemon(daemonType, deployment, ok)
           r == Retry(retries, tries, f.err)
       IN  /\ f.query \/ ok
           /\ events' = IF f.query
                          THEN Append(events, Query(<<daemonType, "ok-to-stop", daemonName>>, ok, "", 0))
                          ELSE events
           /\ pc' = r.pc
           /\ tries' = r.tries
           /\ result' = IF r.pc = "done" /\ r.err # Nil
                          THEN Wrap(r.err, "failed to check if %s was ok to stop", deployment)
                          ELSE Nil
  /\ UNCHANGED << op, args, retries, delay, versions, osdLocals, vv >>

\* ----------------------------------------------------------- OkToContinue
\* Mutant: the switch of OkToContinue checks mon as well.
continueChecked_monToo(dt) == dt \in {"mds", "mon"}

\* The switch of OkToContinue: the daemon types that are checked.
continueChecked(dt) == dt = "mds"

\* OkToContinue is called: nothing to do unless the daemon is an mds.
OkToContinue ==
  /\ pc = "idle"
  /\ \E t \in Targets, dt \in DaemonTypes :
       /\ deployment' = t.deployment
       /\ daemonName' = t.daemonName
       /\ daemonType' = dt
       /\ IF continueChecked(dt)
            THEN /\ retries' = getRetryConfig(osdUpgradeTimeout, "mds").retries
                 /\ delay' = getRetryConfig(osdUpgradeTimeout, "mds").delay
                 /\ pc' = "okToContinueMDSDaemon"
            ELSE /\ UNCHANGED << retries, delay >>
                 /\ pc' = "done"
  /\ op' = "OkToContinue"
  /\ UNCHANGED << osdUpgradeTimeout, tries, versions, osdLocals, result, vv, events >>

\* One attempt of the retry loop of okToContinueMDSDaemon: the probe of the
\* filesystem, then the bookkeeping of util.Retry and the wrapping of its error.
okToContinueMDSDaemon ==
  /\ pc = "okToContinueMDSDaemon"
  /\ \E ok \in BOOLEAN :
       LET err == IF ok THEN Nil ELSE NewError("mds not active or standby-replay", findFSName(deployment))
           r == Retry(retries, tries, err)
       IN  /\ events' = Append(events, Poll(findFSName(deployment), ok))
           /\ pc' = r.pc
           /\ tries' = r.tries
           /\ result' = IF r.pc = "done" /\ r.err # Nil
                          THEN Wrap(r.err, "failed to check if %s was ok to continue", deployment)
                          ELSE Nil
  /\ UNCHANGED << op, args, retries, delay, versions, osdLocals, vv >>

\* The call has returned; the caller makes the next one.
Return ==
  /\ pc = "done"
  /\ pc' = "idle"
  /\ op' = "none"
  /\ deployment' = NoTarget.deployment
  /\ daemonType' = ""
  /\ daemonName' = NoTarget.daemonName
  /\ retries' = 0
  /\ delay' = 0
  /\ tries' = 0
  /\ versions' = ZeroVersions
  /\ osds' = {}
  /\ tree' = ZeroTree
  /\ aioOsds' = {}
  /\ aio' = FALSE
  /\ result' = Nil
  /\ vv' = ZeroVersion
  /\ events' = <<>>
  /\ UNCHANGED osdUpgradeTimeout

Next ==
  \/ OkToStop
  \/ OkToStopVersions
  \/ osdDoNothing
  \/ HostTree
  \/ OsdListNum
  \/ RetryOkToStopDaemon
  \/ RetrySleep
  \/ OkToContinue
  \/ okToContinueMDSDaemon
  \/ Return

Spec == Init /\ [][Next]_vars

\* The steps of a call that has begun.  The code of a call is sequential
\* and every query it makes returns, so a call that can take a step takes
\* it; when the next call is made is up to the caller.
CallStep ==
  \/ OkToStopVersions
  \/ osdDoNothing
  \/ HostTree
  \/ OsdListNum
  \/ RetryOkToStopDaemon
  \/ RetrySleep
  \/ okToContinueMDSDaemon

SpecFair == Spec /\ WF_vars(CallStep)

\* ------------------------------------------- LeastUptodateDaemonVersion
daemonMapEntry(v, dt) ==
  CASE dt = "mon" -> [err |-> Nil, r |-> v.Mon]
    [] dt = "mgr" -> [err |-> Nil, r |-> v.Mgr]
    [] dt = "mds" -> [err |-> Nil, r |-> v.Mds]
    [] dt = "osd" -> [err |-> Nil, r |-> v.Osd]
    [] dt = "rgw" -> [err |-> Nil, r |-> v.Rgw]
    [] dt = "mirror" -> [err |-> Nil, r |-> v.RbdMirror]
    [] OTHER -> [err |-> NewError("invalid daemonType %s", <<dt>>), r |-> EmptyMap]

\* The body of the loop over r when the map enumerates v first: the
\* version of v is extracted and the loop is left.
firstVersion(v) ==
  LET x == ExtractCephVersion(v)
  IN  IF x.err # Nil
        THEN [vv |-> ZeroVersion, err |-> Wrap(x.err, "failed to extract ceph version", <<>>)]
        ELSE [vv |-> x.version, err |-> Nil]

\* A whole call of LeastUptodateDaemonVersion.  The order in which a Go map
\* is enumerated is not specified: any key of r may come first.
LeastUptodateDaemonVersion ==
  /\ pc = "idle"
  /\ \E dt \in DaemonTypes, resp \in VersionsResponses(JsonKeys, BOOLEAN) :
       LET got == GetAllCephDaemonVersions(resp)
           entry == daemonMapEntry(got.versions, dt)
       IN  /\ daemonType' = dt
           /\ events' = Append(events, Query(<<"versions">>, resp.err = Nil,
                                         IF resp.err # Nil THEN "" ELSE IF resp.buf.json THEN "json" ELSE "text", 0))
           /\ versions' = got.versions
           /\ IF got.err # Nil
                THEN /\ vv' = ZeroVersion
                     /\ result' = Wrap(got.err, "failed to get ceph daemons versions", <<>>)
                ELSE IF entry.err # Nil
                  THEN /\ vv' = ZeroVersion
                       /\ result' = Wrap(entry.err, "failed to find daemon map entry", <<>>)
                  ELSE IF DOMAIN entry.r = {}
                    THEN /\ vv' = ZeroVersion
                         /\ result' = Nil
                    ELSE \E v \in DOMAIN entry.r :
                           /\ vv' = firstVersion(v).vv
                           /\ result' = firstVersion(v).err
  /\ op' = "LeastUptodateDaemonVersion"
  /\ pc' = "done"
  /\ UNCHANGED << deployment, daemonName, osdUpgradeTimeout, retries, delay, tries, osdLocals >>

NextVersions ==
  \/ LeastUptodateDaemonVersion
  \/ Return

SpecVersions == Init /\ [][NextVersions]_vars

\* ------------------------------------------------------- getRetryConfig
\* getRetryConfig as a function of its inputs: any daemon type and any
\* timeout within the bound.
InitPolicy ==
  /\ pc = "getRetryConfig"
  /\ op = "getRetryConfig"
  /\ deployment = NoTarget.deployment
  /\ daemonType \in DaemonTypes
  /\ daemonName = NoTarget.daemonName
  /\ osdUpgradeTimeout \in 0..MaxPolicyTimeout
  /\ retries = 0
  /\ delay = 0
  /\ tries = 0
  /\ versions = ZeroVersions
  /\ osds = {}
  /\ tree = ZeroTree
  /\ aioOsds = {}
  /\ aio = FALSE
  /\ result = Nil
  /\ vv = ZeroVersion
  /\ events = <<>>

RetryPolicyFor ==
  /\ pc = "getRetryConfig"
  /\ retries' = getRetryConfig(osdUpgradeTimeout, daemonType).retries
  /\ delay' = getRetryConfig(osdUpgradeTimeout, daemonType).delay
  /\ pc' = "done"
  /\ UNCHANGED << op, args, tries, versions, osdLocals, result, vv, events >>

NextPolicy == RetryPolicyFor

SpecPolicy == InitPolicy /\ [][NextPolicy]_vars

\* ------------------------------------------------------ allOSDsSameHost
\* allOSDsSameHost as a function of what its two queries return.
allOSDsSameHostCall ==
  /\ pc = "idle"
  /\ \E tr \in HostTreeResponses, lr \in OsdListResponses :
       LET treeQuery == Query(<<"osd", "tree">>, tr.err = Nil, "", Len(SelectSeq(tr.tree.nodes, IsHost)))
           listQuery == Query(<<"osd", "ls">>, lr.err = Nil, "", Cardinality(lr.osds))
           same == IF tr.err # Nil
                     THEN [aio |-> FALSE, err |-> Wrap(tr.err, "failed to get the osd tree", <<>>)]
                     ELSE IF lr.err # Nil
                       THEN [aio |-> FALSE, err |-> Wrap(lr.err, "failed to get the osd list", <<>>)]
                       ELSE allOSDsSameHost(tr.tree, lr.osds)
       IN  /\ events' = IF tr.err # Nil THEN <<treeQuery>> ELSE <<treeQuery, listQuery>>
           /\ tree' = tr.tree
           /\ aioOsds' = IF tr.err # Nil THEN {} ELSE lr.osds
           /\ aio' = same.aio
           /\ result' = same.err
  /\ op' = "allOSDsSameHost"
  /\ pc' = "done"
  /\ UNCHANGED << args, retries, delay, tries, versions, osds, vv >>

NextTopology ==
  \/ allOSDsSameHostCall
  \/ Return

SpecTopology == Init /\ [][NextTopology]_vars

\* ================================================================ claims
\* An ok-to-stop query, a sleep, and the queries of the osd pre-filter.
IsProbe(e) == e.kind = "query" /\ Len(e.args) = 3 /\ e.args[2] = "ok-to-stop"

IsSleep(e) == e.kind = "sleep"

IsOsdLs(e) == e.kind = "query" /\ e.args = <<"osd", "ls">>

IsOsdTree(e) == e.kind = "query" /\ e.args = <<"osd", "tree">>

IsVersions(e) == e.kind = "query" /\ e.args = <<"versions">>

NumProbes == Len(SelectSeq(events, IsProbe))

NumSleeps == Len(SelectSeq(events, IsSleep))

\* The fetch at the start of the call has happened and succeeded: the
\* command ran and its output decoded.
FetchSucceeded ==
  /\ Len(events) >= 1
  /\ IsVersions(events[1])
  /\ events[1].ok
  /\ events[1].out = "json"

\* The fetch at the start of the call has happened and failed.
FetchFailed ==
  /\ Len(events) >= 1
  /\ IsVersions(events[1])
  /\ ~(events[1].ok /\ events[1].out = "json")

\* C1: for every daemon type in {mgr, rgw, rbd-mirror, nfs} and every
\* instance name, a call of OkToStop issues no '<type> ok-to-stop <name>'
\* query, and it returns nil whenever the fetch of the versions succeeded.
C1_NoCheckTypesPass ==
  (op = "OkToStop" /\ daemonType \in {"mgr", "rgw", "rbd-mirror", "nfs"}) =>
    /\ NumProbes = 0
    /\ (pc = "done" /\ FetchSucceeded) => result = Nil

C1_Witness ==
  /\ op = "OkToStop"
  /\ daemonType = "nfs"
  /\ pc = "done"
  /\ FetchSucceeded
  /\ result = Nil
  /\ NumProbes = 0

\* C2: OkToStop for mon, when the fetched versions hold exactly one monitor
\* version and its count is below 3, returns nil without entering the retry
\* loop: no ok-to-stop query and no sleep.
C2_SmallMonQuorumAllowed ==
  ( /\ op = "OkToStop"
    /\ daemonType = "mon"
    /\ FetchSucceeded
    /\ Cardinality(DOMAIN versions.Mon) = 1
    /\ \A k \in DOMAIN versions.Mon : versions.Mon[k] < 3 ) =>
    /\ pc = "done"
    /\ result = Nil
    /\ tries = 0
    /\ Len(events) = 1

C2_Witness ==
  /\ op = "OkToStop"
  /\ daemonType = "mon"
  /\ FetchSucceeded
  /\ Cardinality(DOMAIN versions.Mon) = 1
  /\ \E k \in DOMAIN versions.Mon : versions.Mon[k] = 2
  /\ pc = "done"
  /\ result = Nil

\* C3: OkToStop for osd, when the count of the osds succeeds and reports
\* fewer than 3, returns nil without entering the retry loop (no ok-to-stop
\* query, no sleep) and without querying the osd tree.
C3_FewOsdsAllowed ==
  ( /\ op = "OkToStop"
    /\ daemonType = "osd"
    /\ Len(events) >= 2
    /\ IsOsdLs(events[2])
    /\ events[2].ok
    /\ events[2].n < 3 ) =>
    /\ pc = "done"
    /\ result = Nil
    /\ tries = 0
    /\ Len(events) = 2

C3_Witness ==
  /\ op = "OkToStop"
  /\ daemonType = "osd"
  /\ Len(events) = 2
  /\ IsOsdLs(events[2])
  /\ events[2].ok
  /\ events[2].n = 2
  /\ pc = "done"
  /\ result = Nil

\* The host nodes of the tree allOSDsSameHost holds.
HostNodes == { i \in DOMAIN tree.nodes : tree.nodes[i].type = "host" }

\* C4: OkToStop for osd, when there are 3 or more osds, the tree has exactly
\* one node of type host and the number of its children equals the number
\* of osds minus the number of stray ones, returns nil on that answer
\* without any ok-to-stop query.
C4_AllInOneAllowed ==
  [][ ( /\ op = "OkToStop"
        /\ daemonType = "osd"
        /\ pc = "OsdListNum"
        /\ Cardinality(osds) >= 3
        /\ Len(events') = Len(events) + 1
        /\ IsOsdLs(events'[Len(events')])
        /\ events'[Len(events')].ok
        /\ events'[Len(events')].n >= 3
        /\ Cardinality(HostNodes) = 1
        /\ \A i \in HostNodes :
             Cardinality(tree.nodes[i].children)
               = events'[Len(events')].n - Cardinality(tree.stray) ) =>
      ( /\ pc' = "done"
        /\ result' = Nil
        /\ Len(SelectSeq(events', IsProbe)) = 0
        /\ Len(SelectSeq(events', IsSleep)) = 0 ) ]_vars

C4_Witness ==
  /\ op = "OkToStop"
  /\ daemonType = "osd"
  /\ pc = "done"
  /\ result = Nil
  /\ Cardinality(osds) >= 3
  /\ Cardinality(aioOsds) >= 3
  /\ Cardinality(HostNodes) = 1
  /\ tree.stray # {}
  /\ \A i \in HostNodes :
       Cardinality(tree.nodes[i].children) = Cardinality(aioOsds) - Cardinality(tree.stray)
  /\ NumProbes = 0

\* C7: if the fetch of the versions at the start of OkToStop fails (the
\* query or the decoding), then for every daemon type the call returns that
\* error at once: no count of the osds, no osd tree, no ok-to-stop query
\* and no sleep happen in the call.
C7_FetchFailureIsFatal ==
  (op = "OkToStop" /\ FetchFailed) =>
    /\ pc = "done"
    /\ Len(events) = 1
    /\ tries = 0
    /\ result # Nil
    /\ Head(result).msg = "failed to get ceph daemons versions"
    /\ Cause(result) = (IF events[1].ok THEN "DecodeFailure" ELSE "QueryFailure")

C7_Witness ==
  /\ op = "OkToStop"
  /\ daemonType = "nfs"
  /\ FetchFailed
  /\ events[1].ok
  /\ pc = "done"
  /\ Cause(result) = "DecodeFailure"

\* The order of versions: by major, then minor, then extra.
VersionLeq(a, b) ==
  \/ a.Major < b.Major
  \/ a.Major = b.Major /\ a.Minor < b.Minor
  \/ a.Major = b.Major /\ a.Minor = b.Minor /\ a.Extra <= b.Extra

\* The mapping of the fetched versions for each lookup-eligible daemon type.
MappingOf(dt) ==
  CASE dt = "mon" -> versions.Mon
    [] dt = "mgr" -> versions.Mgr
    [] dt = "mds" -> versions.Mds
    [] dt = "osd" -> versions.Osd
    [] dt = "rgw" -> versions.Rgw
    [] dt = "rbd-mirror" -> versions.RbdMirror

\* A version string that parses: "ceph version" and three dotted numbers.
WellFormed(s) == s.words = "ceph version" /\ Len(s.nums) >= 3

Parsed(s) == [Major |-> s.nums[1], Minor |-> s.nums[2], Extra |-> s.nums[3]]

\* C5: LeastUptodateDaemonVersion returns the parsed form of the least
\* up-to-date version among all version strings of the mapping of the
\* daemon type, whatever the order in which the mapping is enumerated; for
\* {mon: {13.2.5: 1, 14.2.0: 2}} it returns 13.2.5.
C5_LeastIsReturned ==
  ( /\ op = "LeastUptodateDaemonVersion"
    /\ pc = "done"
    /\ result = Nil
    /\ daemonType \in {"mon", "mgr", "mds", "osd", "rgw"}
    /\ DOMAIN MappingOf(daemonType) # {}
    /\ \A s \in DOMAIN MappingOf(daemonType) : WellFormed(s) ) =>
    /\ \E s \in DOMAIN MappingOf(daemonType) : vv = Parsed(s)
    /\ \A s \in DOMAIN MappingOf(daemonType) : VersionLeq(vv, Parsed(s))

\* The lookup of the daemon type failed.
UnknownDaemonType(err) == err # Nil /\ Cause(err) = "invalid daemonType %s"

\* C6: the lookup of LeastUptodateDaemonVersion succeeds for each of mon,
\* mgr, mds, osd, rgw and rbd-mirror, and fails with UnknownDaemonType for
\* nfs and every other name.
C6_SixLookupTypes ==
  (op = "LeastUptodateDaemonVersion" /\ pc = "done" /\ FetchSucceeded) =>
    (daemonType \in {"mon", "mgr", "mds", "osd", "rgw", "rbd-mirror"}
       <=> ~UnknownDaemonType(result))

\* The name of the filesystem of an mds deployment.
FsNameOf(d) == IF d[1] = "rook-ceph-mds-" THEN SubSeq(d, 2, Len(d)) ELSE d

C9_RetryPolicy ==
  /\ pc = "getRetryConfig" => ENABLED RetryPolicyFor
  /\ (op = "getRetryConfig" /\ pc = "done") =>
       IF daemonType = "osd"
         THEN /\ delay = 10
              /\ retries * 10 <= osdUpgradeTimeout
              /\ osdUpgradeTimeout < (retries + 1) * 10
              /\ osdUpgradeTimeout = 120 => retries = 12
              /\ osdUpgradeTimeout < 10 => retries = 0
         ELSE IF daemonType = "mds"
           THEN retries = 10 /\ delay = 15
           ELSE retries = 10 /\ delay = 60

C9_Witness ==
  /\ op = "getRetryConfig"
  /\ pc = "done"
  /\ daemonType = "osd"
  /\ osdUpgradeTimeout = 120
  /\ retries = 12
  /\ delay = 10

\* The retry policy of a daemon type as the table of the policy gives it.
AttemptsOf(dt) == IF dt = "osd" THEN osdUpgradeTimeout \div 10 ELSE 10

DelayOf(dt) == IF dt = "osd" THEN 10 ELSE IF dt = "mds" THEN 15 ELSE 60

AllProbesFailed == \A i \in DOMAIN events : IsProbe(events[i]) => ~events[i].ok

\* The call ended with NotOkToStop naming the deployment.
NotOkToStop ==
  /\ result # Nil
  /\ Head(result).msg = "failed to check if %s was ok to stop"
  /\ Head(result).arg = deployment

\* The configured delay is slept between consecutive probes, and only there.
SleepsBetweenProbes ==
  \A i \in DOMAIN events :
    /\ (IsProbe(events[i]) /\ i < Len(events)) =>
         (IsSleep(events[i + 1]) /\ events[i + 1].n = DelayOf(daemonType))
    /\ IsSleep(events[i]) =>
         (i > 1 /\ IsProbe(events[i - 1]) /\ (i < Len(events) => IsProbe(events[i + 1])))

LastEvent == events[Len(events)]

\* C11: in OkToStop for osd, osdDoNothing returns true (the call returns nil
\* at once) exactly when the count of the osds succeeds and either it is
\* below 3 or the osd tree has one host whose children are as many as the
\* osds that are not stray; it returns false when the count fails, when the
\* tree or the second count fails or the tree has no host, and when 3 or
\* more osds are spread over 2 or more hosts; after false the next step of
\* the call is the query 'osd ok-to-stop <daemonName>'.
C11_ShouldSkipOSDCheck ==
  [][ LET e == events'[Len(events')]
          skipped == pc' = "done" /\ result' = Nil /\ Len(SelectSeq(events', IsProbe)) = 0
          checked == pc' = "okToStopDaemon"
      IN  /\ pc = "osdDoNothing" =>
                /\ IsOsdLs(e)
                /\ ~e.ok => checked
                /\ (e.ok /\ e.n < 3) => skipped
                /\ (e.ok /\ e.n >= 3) => pc' = "HostTree"
          /\ pc = "HostTree" =>
                /\ IsOsdTree(e)
                /\ ~e.ok => checked
                /\ e.ok => pc' = "OsdListNum"
          /\ pc = "OsdListNum" =>
                /\ IsOsdLs(e)
                /\ ~e.ok => checked
                /\ (e.ok /\ HostNodes = {}) => checked
                /\ (e.ok /\ Cardinality(HostNodes) >= 2) => checked
                /\ (e.ok /\ Cardinality(HostNodes) = 1) =>
                     IF \A i \in HostNodes :
                          Cardinality(tree.nodes[i].children) = e.n - Cardinality(tree.stray)
                       THEN skipped
                       ELSE checked
          /\ (pc = "okToStopDaemon" /\ daemonType = "osd") =>
                /\ Len(events') = Len(events) + 1
                /\ IsProbe(e)
                /\ e.args = <<"osd", "ok-to-stop", daemonName>> ]_vars

\* Three osds on two hosts: the check is not skipped and the query is made.
C11_Witness ==
  /\ op = "OkToStop"
  /\ daemonType = "osd"
  /\ Len(events) = 5
  /\ IsOsdLs(events[2]) /\ events[2].ok /\ events[2].n = 3
  /\ IsOsdTree(events[3]) /\ events[3].ok /\ events[3].n = 2
  /\ IsOsdLs(events[4]) /\ events[4].ok /\ events[4].n = 3
  /\ IsProbe(events[5])
  /\ events[5].args = <<"osd", "ok-to-stop", daemonName>>

\* A query of the call that failed; the fetch of the versions fails too
\* when its output does not decode.
FailedQuery(e) == e.kind = "query" /\ ~(e.ok /\ (IsVersions(e) => e.out = "json"))

\* The kind of failure of a failed query.
KindOf(e) == IF e.ok THEN "DecodeFailure" ELSE "QueryFailure"

\* The pre-filter of the osds met a failed query.
PreFilterFailed ==
  \E i \in 1..Len(events) : (IsOsdLs(events[i]) \/ IsOsdTree(events[i])) /\ ~events[i].ok

\* The call ended on a best-effort short-circuit.
ShortCircuited ==
  /\ NumProbes = 0
  /\ \/ /\ daemonType = "mon"
        /\ Len(events) = 1
        /\ Cardinality(DOMAIN versions.Mon) = 1
        /\ \A k \in DOMAIN versions.Mon : versions.Mon[k] < 3
     \/ /\ daemonType = "osd"
        /\ IsOsdLs(LastEvent)
        /\ LastEvent.ok
        /\ \/ Len(events) = 2 /\ LastEvent.n < 3
           \/ Len(events) = 4 /\ aio

\* C12 as stated: in a finished OkToStop call every failed query of the
\* versions, of the osd count and of the osd tree, and a failed last
\* ok-to-stop query, is returned as an error of its kind; nil is returned
\* only by a short-circuit, for a type without check, or after a
\* successful ok-to-stop query.
C12_NoFailureSwallowed ==
  (op = "OkToStop" /\ pc = "done") =>
    /\ \A i \in 1..Len(events) :
         (FailedQuery(events[i]) /\ (IsProbe(events[i]) => i = Len(events))) =>
           (result # Nil /\ Cause(result) = KindOf(events[i]))
    /\ result = Nil =>
         \/ daemonType \in {"mgr", "rgw", "rbd-mirror", "nfs"}
         \/ ShortCircuited
         \/ (IsProbe(LastEvent) /\ LastEvent.ok)

\* C12 as amended: a failed fetch of the versions ends the call with an
\* error of its kind, and so does a failed last ok-to-stop query; a failed
\* count of the osds or a failed osd tree is not returned: the call goes on
\* to the ok-to-stop query, and its last outcome alone is the result; nil
\* is returned only by a short-circuit, for a type without check, or after
\* a successful ok-to-stop query.
C12_PreFilterFailuresFallThrough ==
  (op = "OkToStop" /\ pc = "done") =>
    /\ FetchFailed => (result # Nil /\ Cause(result) = KindOf(events[1]))
    /\ (Len(events) >= 1 /\ IsProbe(LastEvent) /\ ~LastEvent.ok) =>
         (result # Nil /\ Cause(result) = "QueryFailure")
    /\ PreFilterFailed =>
         /\ IsProbe(LastEvent)
         /\ result = Nil <=> LastEvent.ok
    /\ result = Nil =>
         \/ daemonType \in {"mgr", "rgw", "rbd-mirror", "nfs"}
         \/ ShortCircuited
         \/ (IsProbe(LastEvent) /\ LastEvent.ok)

\* The osd tree could not be fetched, the ok-to-stop query passed, and the
\* call returned nil.
C12_Witness ==
  /\ op = "OkToStop"
  /\ daemonType = "osd"
  /\ pc = "done"
  /\ Len(events) = 4
  /\ IsOsdTree(events[3]) /\ ~events[3].ok
  /\ IsProbe(events[4]) /\ events[4].ok
  /\ result = Nil

\* The states of a call: START while the versions are fetched and the
\* pre-filter runs, PROBE at the first attempt of the retry loop, RETRYING
\* after a failed attempt, ALLOW and BLOCKED once the call has returned.
Phase ==
  CASE pc = "idle" -> "NONE"
    [] pc \in {"versions", "osdDoNothing", "HostTree", "OsdListNum"} -> "START"
    [] pc \in {"okToStopDaemon", "okToContinueMDSDaemon"} /\ tries = 0 -> "PROBE"
    [] pc \in {"okToStopDaemon", "okToContinueMDSDaemon"} /\ tries > 0 -> "RETRYING"
    [] pc = "sleep" -> "RETRYING"
    [] pc = "done" /\ result = Nil -> "ALLOW"
    [] pc = "done" /\ result # Nil -> "BLOCKED"

\* The retry loop is left only by a successful attempt, with nil, or by a
\* failed attempt that exhausts the retries, with an error; any other
\* failed attempt is followed by the sleep and another attempt.
LoopExit ==
  /\ pc \in {"okToStopDaemon", "okToContinueMDSDaemon"} =>
        LET e == events'[Len(events')]
            passed == Len(events') = Len(events) \/ e.ok
        IN  /\ passed => (pc' = "done" /\ result' = Nil)
            /\ (~passed /\ tries < retries) => (pc' = "sleep" /\ tries' = tries + 1)
            /\ (~passed /\ tries >= retries) => (pc' = "done" /\ result' # Nil)
  /\ pc = "sleep" => (pc' \in {"okToStopDaemon", "okToContinueMDSDaemon"} /\ tries' = tries)

\* The edges between the states of a call; a failed attempt that exhausts
\* the retries passes through RETRYING within its step.
Edges(fromStart) ==
  /\ Phase = "NONE" => Phase' \in {"START", "PROBE", "ALLOW"}
  /\ Phase = "START" => Phase' \in fromStart
  /\ Phase = "PROBE" => Phase' \in {"ALLOW", "RETRYING", "BLOCKED"}
  /\ Phase = "RETRYING" => Phase' \in {"RETRYING", "ALLOW", "BLOCKED"}
  /\ Phase \in {"ALLOW", "BLOCKED"} => Phase' = "NONE"

\* C13 as stated: every call of OkToStop and OkToContinue that has begun
\* returns, with nil or with an error; from START it goes to a
\* short-circuit ALLOW or to PROBE, from PROBE to ALLOW or to RETRYING,
\* from RETRYING to ALLOW or BLOCKED; the retry loop ends only on a
\* successful attempt or on exhaustion, for every retry policy.
C13_StartToAllowOrProbe ==
  /\ (pc \notin {"idle", "done"}) ~> (pc = "done")
  /\ [][Edges({"START", "ALLOW", "PROBE"}) /\ LoopExit]_vars

\* C13 as amended: the same, with one more edge: from START the call goes
\* to BLOCKED when the fetch of the versions fails, and only then.
C13_StartToAllowProbeOrBlocked ==
  /\ (pc \notin {"idle", "done"}) ~> (pc = "done")
  /\ [][ /\ Edges({"START", "ALLOW", "PROBE", "BLOCKED"})
         /\ (Phase = "START" /\ Phase' = "BLOCKED") <=>
              (pc = "versions" /\ ~(LET e == events'[Len(events')] IN e.ok /\ e.out = "json"))
         /\ LoopExit ]_vars

\* An osd call with no retry: one failed ok-to-stop query ends it BLOCKED.
C13_Witness ==
  /\ op = "OkToStop"
  /\ daemonType = "osd"
  /\ retries = 0
  /\ pc = "done"
  /\ result # Nil
  /\ NumProbes = 1
  /\ NumSleeps = 0

SingleSmallMon ==
  /\ Cardinality(DOMAIN versions.Mon) = 1
  /\ \A k \in DOMAIN versions.Mon : versions.Mon[k] < 3

HostChildren == UNION { tree.nodes[i].children : i \in HostNodes }

\* Both queries of allOSDsSameHost succeeded.
TopologyFetched ==
  /\ op = "allOSDsSameHost"
  /\ pc = "done"
  /\ Len(events) = 2
  /\ events[1].ok
  /\ events[2].ok

\* The tree has one host whose children are as many as the osds that are
\* not stray.
OneHostSameNumber ==
  /\ Cardinality(HostNodes) = 1
  /\ Cardinality(HostChildren) = Cardinality(aioOsds) - Cardinality(tree.stray)

\* The error for a tree without the expected structure.
EmptyTopology(err) ==
  err # Nil /\ Cause(err) \in {"no host in crush map yet?", "osd tree not populated, missing 'nodes' field"}

\* What allOSDsSameHost returns apart from the meaning of true: false
\* without error on two or more hosts or on differing numbers, an error on
\* a tree without host, true on one host and equal numbers only.
SameHostOutcomes ==
  TopologyFetched =>
    /\ aio => (result = Nil /\ OneHostSameNumber)
    /\ Cardinality(HostNodes) >= 2 => (~aio /\ result = Nil)
    /\ (Cardinality(HostNodes) = 1 /\ ~OneHostSameNumber) => (~aio /\ result = Nil)
    /\ HostNodes = {} => (~aio /\ EmptyTopology(result))

NumFailedProbes ==
  Cardinality({ i \in 1..Len(events) : IsProbe(events[i]) /\ ~events[i].ok })

\* C17: in an OkToStop call the retry loop stops at the first ok-to-stop
\* query that passes: it is the last query of the call, no sleep follows
\* it, the call has returned nil, and the sleeps of the call are as many as
\* the failed queries before it.
C17_StopsAtFirstSuccess ==
  op = "OkToStop" =>
    \A i \in 1..Len(events) :
      (IsProbe(events[i]) /\ events[i].ok) =>
        /\ i = Len(events)
        /\ pc = "done"
        /\ result = Nil
        /\ NumSleeps = NumFailedProbes
        /\ NumProbes = NumFailedProbes + 1

\* Two failed queries, two sleeps, then the query passed.
C17_Witness ==
  /\ op = "OkToStop"
  /\ daemonType = "mon"
  /\ pc = "done"
  /\ result = Nil
  /\ NumFailedProbes = 2
  /\ NumSleeps = 2
  /\ NumProbes = 3
  /\ LastEvent.ok

\* C19: LeastUptodateDaemonVersion never returns the zero version with a
\* nil error: when the mapping of the daemon type is empty the call fails,
\* and when it returns nil the version is the parsed form of a version
\* string of that mapping.
C19_NoZeroVersionWithNil ==
  ( /\ op = "LeastUptodateDaemonVersion"
    /\ pc = "done"
    /\ FetchSucceeded
    /\ daemonType \in {"mon", "mgr", "mds", "osd", "rgw"} ) =>
    /\ DOMAIN MappingOf(daemonType) = {} => result # Nil
    /\ result = Nil =>
         /\ vv # ZeroVersion
         /\ \E s \in DOMAIN MappingOf(daemonType) : WellFormed(s) /\ vv = Parsed(s)

====
